---------------------------- MODULE Spec2Model ----------------------------
(***************************************************************************)
(* Queen-bee / mutant-bee genetic algorithm (qbmb.py).                     *)
(*                                                                         *)
(* The script is one sequential loop over generations.  The model keeps    *)
(* the script's module-level names as variables and walks the loop body    *)
(* one phase at a time (pc names the phase about to run).  Every random    *)
(* draw of the script (randint, argsort of randn, the order of equal keys  *)
(* in sort/topk) is a nondeterministic choice over all its outcomes.       *)
(*                                                                         *)
(* Representation:                                                         *)
(*   - a genome is a sequence of integers, tensors of genomes are          *)
(*     sequences of genomes; tensor indices are 0-based in the script and  *)
(*     1-based here (contender_ids), ranks produced by argsort stay        *)
(*     0-based because they are compared with a number;                    *)
(*   - a fitness 1. / d is the pair <<1, d>>; d = 0 is float('inf');       *)
(*     fitnesses are compared by cross-multiplication (1/d is strictly     *)
(*     decreasing in d over the integers the script can produce);          *)
(*   - None is the empty sequence;                                         *)
(*   - a temporary of the loop body (contender_ids, parents, the masks,    *)
(*     mutated_parents, rand_crossover_order, mutated_pool) keeps its      *)
(*     value to the end of the iteration and is None at the top of the     *)
(*     next: the script assigns each one again before it reads it.         *)
(*                                                                         *)
(* POP_SIZE (100 in the script) and GOAL (25 characters in the script) are *)
(* scaled down so that the loop can be explored exhaustively, and          *)
(* NUM_TOURNAMENT_PARTICIPANTS (25 in the script) is fixed per run to any  *)
(* size the scaled pool allows; the mutation count is also checked on its  *)
(* own at the script's gene length (SpecMutate).                           *)
(***************************************************************************)
EXTENDS Integers, Sequences, FiniteSets, TLC

VARIABLES
    NUM_TOURNAMENT_PARTICIPANTS, \* the tournament size the run is configured with
    pool,                 \* tensor of genomes
    fitnesses,            \* tensor of fitnesses, one per pool row
    queen,                \* genome or None
    queen_fitness,        \* fitness or None
    generation,           \* generation counter
    contender_ids,        \* per slot, the tournament's pool indices
    parents,              \* per slot, the tournament winner's genome
    strong_mutate_mask,   \* per slot, the positions strong mutation hits
    mutated_parents,      \* per slot, the strongly mutated mate
    rand_crossover_order, \* per slot, the order of (queen, mate)
    mutate_mask,          \* per child, the positions weak mutation hits
    mutated_pool,         \* the weakly mutated children
    pc,                   \* the phase of the loop body about to run
    snap,                 \* history: pool/fitnesses/queen as left by the last sort
    demoted               \* history: the queen was demoted in this generation

vars == <<NUM_TOURNAMENT_PARTICIPANTS, pool, fitnesses, queen, queen_fitness, generation, contender_ids,
          parents, strong_mutate_mask, mutated_parents, rand_crossover_order,
          mutate_mask, mutated_pool, pc, snap, demoted>>

---------------------------------------------------------------------------
(* constants of the script *)

\* GOAL, already encoded (encode maps each character to its code point):
\* two genes, one at each end of the initial range
GOAL == <<0, 254>>

\* 100 in the script
POP_SIZE == 3

\* NUM_TOURNAMENT_PARTICIPANTS is 25 in the script; a run of the model is
\* configured with any size from one genome to the whole non-queen pool
TournamentSizes == 1..(POP_SIZE - 1)

\* MUTATION_PROB = 0.04 and STRONG_MUTATION_PROB = 0.25 as fractions of PROB_DEN
MUTATION_PROB == 4
STRONG_MUTATION_PROB == 25
PROB_DEN == 100

\* clamp_(0, 255)
CLAMP_MIN == 0
CLAMP_MAX == 255

\* torch.randint(0, 255, ...): the exclusive upper end of the initial genes
RANDINT_HIGH == 255

\* len(GOAL) of the script, 'Attention is all you need'
DEFAULT_GENE_LENGTH == 25

\* generations the model runs
MaxGen == 2

\* the initial gene values the model draws from: both ends of randint's range
InitVals == {0, RANDINT_HIGH - 1}

None == <<>>

gene_length == Len(GOAL)
gene_midpoint == gene_length \div 2
target_gene == GOAL

---------------------------------------------------------------------------
(* fitness *)

RECURSIVE SumTo(_, _)
SumTo(f, n) == IF n = 0 THEN 0 ELSE f[n] + SumTo(f, n - 1)

\* torch.square(gene - target_gene).sum(dim = -1)
SquaredError(gene) ==
    SumTo([i \in 1..Len(gene) |-> (gene[i] - target_gene[i]) * (gene[i] - target_gene[i])],
          Len(gene))

\* 1. / squared error
Fitness(gene) == <<1, SquaredError(gene)>>

\* fitness == float('inf')
IsInf(f) == f[2] = 0

\* a < b on fitnesses
FLess(a, b) == a[1] * b[2] < b[1] * a[2]

\* the permutations of 1..n
Perms(n) == {p \in [1..n -> 1..n] : \A i, j \in 1..n : p[i] = p[j] => i = j}

\* a sort that orders ascending instead
SortIndicesAscending(fs) ==
    {p \in Perms(Len(fs)) :
        \A i \in 1..(Len(fs) - 1) : ~FLess(fs[p[i + 1]], fs[p[i]])}

\* fitnesses.sort(descending = True).indices: any order of equal keys
SortIndices(fs) ==
    {p \in Perms(Len(fs)) :
        \A i \in 1..(Len(fs) - 1) : ~FLess(fs[p[i]], fs[p[i + 1]])}

\* a check that asks for every fitness to be inf
SolvedAll(fs) == \A i \in 1..Len(fs) : IsInf(fs[i])

\* (fitnesses == float('inf')).any()
Solved(fs) == \E i \in 1..Len(fs) : IsInf(fs[i])

---------------------------------------------------------------------------
(* mutation *)

\* a clamp that is left out
ClampNone(v) == v

\* clamp_(0, 255) on one value
Clamp(v) == IF v < CLAMP_MIN THEN CLAMP_MIN ELSE IF v > CLAMP_MAX THEN CLAMP_MAX ELSE v

ClampGene(gene) == [j \in 1..Len(gene) |-> Clamp(gene[j])]

\* a mask that also takes the rank equal to the product
BelowOrAtNumCode(rank, prob, length) == rank * PROB_DEN <= prob * length

\* rank < prob * length, for a 0-based rank of argsort
BelowNumCode(rank, prob, length) == rank * PROB_DEN < prob * length

\* one row of torch.randn(shape).argsort(dim = -1): a permutation of 0..length-1
ArgsortRows(length) ==
    {[j \in 1..length |-> p[j] - 1] : p \in Perms(length)}

\* one row of the mask: argsort < num_code_mutate
MaskRow(ranks, prob) ==
    [j \in 1..Len(ranks) |-> BelowNumCode(ranks[j], prob, Len(ranks))]

\* one row of torch.randint(0, 2, shape) * 2 - 1
NoiseRows(length) == [1..length -> {-1, 1}]

\* one row of torch.where(mask, gene + noise, gene)
WhereRow(mask, gene, noise) ==
    [j \in 1..Len(gene) |-> IF mask[j] THEN gene[j] + noise[j] ELSE gene[j]]

\* what mutation (before any clamp) can make of one genome, with the mask used
MutateOutcomes(gene, prob, ranksOf, noiseOf) ==
    {[mask |-> MaskRow(r, prob), gene |-> WhereRow(MaskRow(r, prob), gene, n)] :
        r \in ranksOf, n \in noiseOf}

\* the same for the first n rows of a tensor of genomes, each row drawn on its own
RECURSIVE MutateRows(_, _, _)
MutateRows(genes, prob, n) ==
    IF n = 0 THEN {<<>>}
    ELSE {Append(before, out) :
             before \in MutateRows(genes, prob, n - 1),
             out \in MutateOutcomes(genes[n], prob, ArgsortRows(Len(genes[n])),
                                    NoiseRows(Len(genes[n])))}

\* the same for every row
MutateAll(genes, prob) == MutateRows(genes, prob, Len(genes))

---------------------------------------------------------------------------
(* tournament *)

N == POP_SIZE - 1

\* one row of randn((N, N)).argsort(dim = -1)[..., :NUM_TOURNAMENT_PARTICIPANTS]
ContenderRows ==
    {[k \in 1..NUM_TOURNAMENT_PARTICIPANTS |-> p[k]] : p \in Perms(N)}

\* a topk with largest = False
TopLoser(tournament) ==
    {w \in 1..Len(tournament) :
        \A k \in 1..Len(tournament) : ~FLess(tournament[k], tournament[w])}

\* tournaments.topk(1, largest = True).indices for one row: any index of a maximum
TopWinner(tournament) ==
    {w \in 1..Len(tournament) :
        \A k \in 1..Len(tournament) : ~FLess(tournament[w], tournament[k])}

\* the genomes one slot's tournament can return
ParentsOf(ids) ==
    {pool[ids[w]] : w \in TopWinner([k \in 1..Len(ids) |-> fitnesses[ids[k]]])}

\* what one slot's tournament can draw and return
TournamentOutcomes ==
    UNION {{[ids |-> ids, parent |-> p] : p \in ParentsOf(ids)} : ids \in ContenderRows}

\* the tournaments of the first n slots, each drawn on its own
RECURSIVE TournamentRows(_)
TournamentRows(n) ==
    IF n = 0 THEN {<<>>}
    ELSE {Append(before, out) : before \in TournamentRows(n - 1),
                                out \in TournamentOutcomes}

---------------------------------------------------------------------------
(* crossover *)

\* one row of torch.randn((N, 2)).argsort(dim = -1)
CrossoverOrders == {<<0, 1>>, <<1, 0>>}

\* a crossover that always puts the queen first
CrossoverChildQueenFirst(q, mate, order) ==
    [j \in 1..Len(q) |-> IF j <= gene_midpoint THEN q[j] ELSE mate[j]]

\* queen_and_parents[b, order], unbind, then first[:midpoint] ++ second[midpoint:]
CrossoverChild(q, mate, order) ==
    LET pair   == <<q, mate>>
        first  == pair[order[1] + 1]
        second == pair[order[2] + 1]
    IN  [j \in 1..Len(q) |-> IF j <= gene_midpoint THEN first[j] ELSE second[j]]

---------------------------------------------------------------------------
(* the script *)

InitGenes == [1..gene_length -> InitVals]

Init ==
    /\ NUM_TOURNAMENT_PARTICIPANTS \in TournamentSizes
    /\ pool \in [1..POP_SIZE -> InitGenes]
    /\ fitnesses = None
    /\ queen = None
    /\ queen_fitness = None
    /\ generation = 1
    /\ contender_ids = None
    /\ parents = None
    /\ strong_mutate_mask = None
    /\ mutated_parents = None
    /\ rand_crossover_order = None
    /\ mutate_mask = None
    /\ mutated_pool = None
    /\ pc = "sort"
    /\ snap = [pool |-> None, fitnesses |-> None, queen |-> None, queen_fitness |-> None]
    /\ demoted = FALSE

temps == <<contender_ids, parents, strong_mutate_mask, mutated_parents,
           rand_crossover_order, mutate_mask, mutated_pool>>

\* sort population by fitness
Sort ==
    /\ pc = "sort"
    /\ LET fs == [i \in 1..Len(pool) |-> Fitness(pool[i])] IN
       \E indices \in SortIndices(fs) :
          /\ pool' = [i \in 1..Len(pool) |-> pool[indices[i]]]
          /\ fitnesses' = [i \in 1..Len(pool) |-> fs[indices[i]]]
    /\ snap' = [pool |-> pool', fitnesses |-> fitnesses',
                queen |-> queen, queen_fitness |-> queen_fitness]
    /\ demoted' = FALSE
    /\ pc' = "check"
    /\ UNCHANGED NUM_TOURNAMENT_PARTICIPANTS
    /\ UNCHANGED <<queen, queen_fitness, generation, temps>>

\* solved if any fitness is inf
Check ==
    /\ pc = "check"
    /\ pc' = IF Solved(fitnesses) THEN "done" ELSE "demote"
    /\ UNCHANGED NUM_TOURNAMENT_PARTICIPANTS
    /\ UNCHANGED <<pool, fitnesses, queen, queen_fitness, generation, temps,
                   snap, demoted>>

\* a comparison that lets a child of equal fitness supplant the queen too
SupplantsOrTies(qf, best) == ~FLess(best, qf)

\* a demotion that drops the queen
ReinsertDropped(p, q) == p

\* the comparison that lets a child supplant the queen
Supplants(qf, best) == FLess(qf, best)

\* the pool a demoted queen goes back to
Reinsert(p, q) == Append(p, q)

\* if one of the children has a better fitness than queen ...
Demote ==
    /\ pc = "demote"
    /\ IF queen # None /\ Supplants(queen_fitness, fitnesses[1])
       THEN /\ pool' = Reinsert(pool, queen)
            /\ fitnesses' = Reinsert(fitnesses, queen_fitness)
            /\ queen' = None
            /\ queen_fitness' = None
            /\ demoted' = TRUE
       ELSE UNCHANGED <<pool, fitnesses, queen, queen_fitness, demoted>>
    /\ pc' = "extract"
    /\ UNCHANGED NUM_TOURNAMENT_PARTICIPANTS
    /\ UNCHANGED <<generation, temps, snap>>

\* separate the queen bee from the rest of the population
Extract ==
    /\ pc = "extract"
    /\ IF queen = None
       THEN /\ queen' = pool[1]
            /\ pool' = Tail(pool)
            /\ queen_fitness' = fitnesses[1]
            /\ fitnesses' = Tail(fitnesses)
       ELSE UNCHANGED <<pool, fitnesses, queen, queen_fitness>>
    /\ pc' = "tournament"
    /\ UNCHANGED NUM_TOURNAMENT_PARTICIPANTS
    /\ UNCHANGED <<generation, temps, snap, demoted>>

\* deterministic tournament selection
Tournament ==
    /\ pc = "tournament"
    /\ \E out \in TournamentRows(N) :
          /\ contender_ids' = [i \in 1..N |-> out[i].ids]
          /\ parents' = [i \in 1..N |-> out[i].parent]
    /\ pc' = "strong_mutate"
    /\ UNCHANGED NUM_TOURNAMENT_PARTICIPANTS
    /\ UNCHANGED <<pool, fitnesses, queen, queen_fitness, generation,
                   strong_mutate_mask, mutated_parents, rand_crossover_order,
                   mutate_mask, mutated_pool, snap, demoted>>

\* potential parents with queen is strongly mutated, then clamp_(0, 255)
StrongMutate ==
    /\ pc = "strong_mutate"
    /\ \E out \in MutateAll(parents, STRONG_MUTATION_PROB) :
          /\ strong_mutate_mask' = [i \in 1..N |-> out[i].mask]
          /\ mutated_parents' = [i \in 1..N |-> ClampGene(out[i].gene)]
    /\ pc' = "crossover"
    /\ UNCHANGED NUM_TOURNAMENT_PARTICIPANTS
    /\ UNCHANGED <<pool, fitnesses, queen, queen_fitness, generation, contender_ids,
                   parents, rand_crossover_order, mutate_mask, mutated_pool,
                   snap, demoted>>

\* cross over all chosen drones with the queen
Crossover ==
    /\ pc = "crossover"
    /\ rand_crossover_order' \in [1..N -> CrossoverOrders]
    /\ pool' = [i \in 1..N |->
                  CrossoverChild(queen, mutated_parents[i], rand_crossover_order'[i])]
    /\ pc' = "mutate"
    /\ UNCHANGED NUM_TOURNAMENT_PARTICIPANTS
    /\ UNCHANGED <<fitnesses, queen, queen_fitness, generation, contender_ids,
                   parents, strong_mutate_mask, mutated_parents, mutate_mask, mutated_pool, snap, demoted>>

\* mutate genes in population: mutated_pool is assigned, pool is clamped
Mutate ==
    /\ pc = "mutate"
    /\ \E out \in MutateAll(pool, MUTATION_PROB) :
          /\ mutate_mask' = [i \in 1..N |-> out[i].mask]
          /\ mutated_pool' = [i \in 1..N |-> out[i].gene]
    /\ pool' = [i \in 1..Len(pool) |-> ClampGene(pool[i])]
    /\ pc' = "increment"
    /\ UNCHANGED NUM_TOURNAMENT_PARTICIPANTS
    /\ UNCHANGED <<fitnesses, queen, queen_fitness, generation, contender_ids,
                   parents, strong_mutate_mask, mutated_parents,
                   rand_crossover_order, snap, demoted>>

\* increment generation; the temporaries of the finished iteration are dropped
Increment ==
    /\ pc = "increment"
    /\ generation < MaxGen
    /\ generation' = generation + 1
    /\ pc' = "sort"
    /\ contender_ids' = None
    /\ parents' = None
    /\ strong_mutate_mask' = None
    /\ mutated_parents' = None
    /\ rand_crossover_order' = None
    /\ mutate_mask' = None
    /\ mutated_pool' = None
    /\ UNCHANGED NUM_TOURNAMENT_PARTICIPANTS
    /\ UNCHANGED <<pool, fitnesses, queen, queen_fitness, snap, demoted>>

Next ==
    \/ Sort
    \/ Check
    \/ Demote
    \/ Extract
    \/ Tournament
    \/ StrongMutate
    \/ Crossover
    \/ Mutate
    \/ Increment

Spec == Init /\ [][Next]_vars

---------------------------------------------------------------------------
(* strong mutation on its own, for gene lengths up to the script's and past *)

MaxGeneLength == 26

\* the gene values the mutation is tried on: both clamp ends and an inner one
MutVals == {CLAMP_MIN, 100, CLAMP_MAX}

\* argsort rows tried on long genomes: the rotations of 0..length-1
RotationRows(length) ==
    {[j \in 1..length |-> (j - 1 + r) % length] : r \in 0..(length - 1)}

\* noise rows tried on long genomes: constant and alternating signs
NoisePatterns(length) ==
    {[j \in 1..length |-> a * (IF j % 2 = 0 THEN b ELSE 1)] : a, b \in {-1, 1}}

MutInit ==
    /\ \E length \in 1..MaxGeneLength, v \in MutVals :
          parents = <<[j \in 1..length |-> v]>>
    /\ NUM_TOURNAMENT_PARTICIPANTS = 1
    /\ pool = None
    /\ fitnesses = None
    /\ queen = None
    /\ queen_fitness = None
    /\ generation = 1
    /\ contender_ids = None
    /\ strong_mutate_mask = None
    /\ mutated_parents = None
    /\ rand_crossover_order = None
    /\ mutate_mask = None
    /\ mutated_pool = None
    /\ pc = "strong_mutate_only"
    /\ snap = [pool |-> None, fitnesses |-> None, queen |-> None, queen_fitness |-> None]
    /\ demoted = FALSE

\* lines 96-99 applied to the one genome in parents
StrongMutateOnly ==
    /\ pc = "strong_mutate_only"
    /\ \E o \in MutateOutcomes(parents[1], STRONG_MUTATION_PROB,
                                RotationRows(Len(parents[1])),
                                NoisePatterns(Len(parents[1]))) :
          /\ strong_mutate_mask' = <<o.mask>>
          /\ mutated_parents' = <<ClampGene(o.gene)>>
    /\ pc' = "mutated"
    /\ UNCHANGED NUM_TOURNAMENT_PARTICIPANTS
    /\ UNCHANGED <<pool, fitnesses, queen, queen_fitness, generation, contender_ids,
                   parents, rand_crossover_order, mutate_mask, mutated_pool,
                   snap, demoted>>

MutNext == StrongMutateOnly

SpecMutate == MutInit /\ [][MutNext]_vars

---------------------------------------------------------------------------
(* properties *)

WellFormed(gene) ==
    /\ Len(gene) = Len(target_gene)
    /\ \A j \in 1..Len(gene) : gene[j] >= 0 /\ gene[j] <= 255

AllWellFormed(genes) == \A i \in 1..Len(genes) : WellFormed(genes[i])

\* fs[i] is the fitness of genes[i] against the target
Aligned(genes, fs) ==
    /\ Len(genes) = Len(fs)
    /\ \A i \in 1..Len(genes) : fs[i] = Fitness(genes[i])

SortedDescending(fs) == \A i \in 1..(Len(fs) - 1) : ~FLess(fs[i], fs[i + 1])

\* the positions a mask row selects
Masked(mask) == {j \in 1..Len(mask) : mask[j]}

\* C1: weak mutation takes effect on the next generation: the Population the
\* next generation evaluates (the pool as the loop body leaves it) is the weakly
\* mutated, clamped result, not the raw crossover output.
C1_WeakMutationApplied ==
    pc = "increment" =>
        pool = [i \in 1..Len(mutated_pool) |-> ClampGene(mutated_pool[i])]

\* C2: the loop stops in a generation iff some individual of the just-evaluated
\* set (a pool member, or the queen if present) equals the target; it stops
\* right after the sort, with pool, fitnesses and queen as the sort left them
\* and no demotion done, and in every other generation it goes on to the
\* queen demotion step.
C2_StopsIffExactMatch ==
    /\ [][pc = "check" =>
            /\ (pc' = "done") <=>
                   \/ \E i \in 1..Len(pool) : pool[i] = target_gene
                   \/ queen = target_gene
            /\ pc' # "done" => pc' = "demote"]_vars
    /\ [][pc' = "done" => pc = "check"]_vars
    /\ [](pc = "done" =>
            /\ pool = snap.pool
            /\ fitnesses = snap.fitnesses
            /\ queen = snap.queen
            /\ queen_fitness = snap.queen_fitness
            /\ ~demoted
            /\ Aligned(pool, fitnesses)
            /\ SortedDescending(fitnesses))

C2_StoppedWithQueen ==
    /\ pc = "done"
    /\ queen # None
    /\ generation = 2
    /\ \E i \in 1..Len(pool) : pool[i] = target_gene

\* C3: in a generation that starts with a queen, right after the demotion /
\* extraction step: if the best freshly evaluated child is strictly fitter than
\* she was, the queen is that child, the former queen with her fitness is a
\* member of the pool used for the tournament, and there is one queen;
\* otherwise queen and fitness are unchanged and the pool is the sorted children.
C3_QueenReplacement ==
    (pc = "tournament" /\ snap.queen # None) =>
        /\ queen # None
        /\ IF FLess(Fitness(snap.queen), Fitness(snap.pool[1]))
           THEN /\ demoted
                /\ queen = snap.pool[1]
                /\ queen_fitness = Fitness(snap.pool[1])
                /\ \E i \in 1..Len(pool) :
                      pool[i] = snap.queen /\ fitnesses[i] = snap.queen_fitness
           ELSE /\ ~demoted
                /\ queen = snap.queen
                /\ queen_fitness = snap.queen_fitness
                /\ pool = snap.pool
                /\ fitnesses = snap.fitnesses
                /\ SortedDescending(fitnesses)

C3_QueenDemoted ==
    /\ pc = "tournament"
    /\ demoted
    /\ queen # snap.queen
    /\ \E i \in 1..Len(pool) : pool[i] = snap.queen

\* C4: a queen demoted in generation g is one of the entries of the Population
\* that generation g+1 evaluates (the pool as generation g leaves it).
C4_DemotedQueenInNextPopulation ==
    (pc \in {"increment", "sort"} /\ demoted) =>
        \E i \in 1..Len(pool) : pool[i] = snap.queen

\* C5: in every reachable state every genome of the pool, the queen if present,
\* and every selected and strongly mutated mate has the target's length and
\* values in [0, 255].
C5_GenomesWellFormed ==
    /\ AllWellFormed(pool)
    /\ queen # None => WellFormed(queen)
    /\ AllWellFormed(parents)
    /\ AllWellFormed(mutated_parents)

C5_ClampedAtBothEnds ==
    /\ pc = "crossover"
    /\ \E i \in 1..Len(parents) : \E j \in 1..gene_length :
          strong_mutate_mask[i][j] /\ parents[i][j] = 0 /\ mutated_parents[i][j] = 0
    /\ \E i \in 1..Len(parents) : \E j \in 1..gene_length :
          strong_mutate_mask[i][j] /\ parents[i][j] = 255 /\ mutated_parents[i][j] = 255

\* the least k with k >= prob * length: ceil(prob * length)
CeilCount(prob, length) == (prob * length + PROB_DEN - 1) \div PROB_DEN

\* round(prob * length), halves to the even neighbour as Python's round does
RoundCount(prob, length) ==
    LET twice == 2 * prob * length
        den   == 2 * PROB_DEN
        low   == twice \div den
    IN  IF twice % den # PROB_DEN THEN (twice + PROB_DEN) \div den
        ELSE IF low % 2 = 0 THEN low ELSE low + 1

\* strong mutation changed exactly count(length) positions of every parent by
\* +1 or -1 before clamping and left the others alone; count is the rounded
\* product or its ceiling
StrongMutationHits(rounded) ==
    \A i \in 1..Len(parents) :
        /\ Len(mutated_parents[i]) = Len(parents[i])
        /\ Cardinality(Masked(strong_mutate_mask[i])) =
              IF rounded THEN RoundCount(STRONG_MUTATION_PROB, Len(parents[i]))
              ELSE CeilCount(STRONG_MUTATION_PROB, Len(parents[i]))
        /\ \A j \in 1..Len(parents[i]) :
              IF strong_mutate_mask[i][j]
              THEN mutated_parents[i][j] \in {Clamp(parents[i][j] + 1),
                                              Clamp(parents[i][j] - 1)}
              ELSE mutated_parents[i][j] = parents[i][j]

\* C6 as stated, for the script's gene length: strong mutation changes exactly
\* round(STRONG_MUTATION_PROB * gene_length) = round(6.25) = 6 distinct
\* positions of each parent by +1 or -1 before clamping and leaves every other
\* position equal to the parent's.
C6_StrongMutationRoundCount ==
    (pc = "mutated" /\ Len(parents[1]) = DEFAULT_GENE_LENGTH) => StrongMutationHits(TRUE)

\* C6 amended: strong mutation changes exactly ceil(STRONG_MUTATION_PROB *
\* gene_length) distinct positions (every position whose rank is below the
\* unrounded product) of each parent by +1 or -1 before clamping and leaves
\* every other position equal to the parent's; the count depends on the gene
\* length alone.
C6_StrongMutationCeilCount ==
    pc \in {"mutated", "crossover"} => StrongMutationHits(FALSE)

C6_SevenOfTwentyFive ==
    /\ pc = "mutated"
    /\ Len(parents[1]) = DEFAULT_GENE_LENGTH
    /\ Cardinality(Masked(strong_mutate_mask[1])) = 7
    /\ Cardinality({j \in 1..DEFAULT_GENE_LENGTH : mutated_parents[1][j] # parents[1][j]}) = 7

\* the pool indices of one tournament
Participants(ids) == {ids[k] : k \in 1..Len(ids)}

\* C7: at selection time the pool has POP_SIZE - 1 genomes and POP_SIZE - 1
\* parents are produced; each slot has NUM_TOURNAMENT_PARTICIPANTS distinct
\* participants, all indices of the pool, and its parent is a participant's
\* genome whose fitness is the maximum among the participants; when the
\* tournament takes the whole pool every parent has the pool's best fitness.
C7_TournamentSelection ==
    /\ pc \in {"tournament", "strong_mutate"} =>
          Len(pool) = POP_SIZE - 1 /\ Len(fitnesses) = POP_SIZE - 1
    /\ pc = "strong_mutate" =>
          /\ Len(parents) = POP_SIZE - 1
          /\ Len(contender_ids) = POP_SIZE - 1
          /\ \A i \in 1..(POP_SIZE - 1) :
                /\ Participants(contender_ids[i]) \subseteq 1..Len(pool)
                /\ Cardinality(Participants(contender_ids[i])) = NUM_TOURNAMENT_PARTICIPANTS
                /\ \E c \in Participants(contender_ids[i]) :
                      /\ parents[i] = pool[c]
                      /\ \A d \in Participants(contender_ids[i]) :
                            ~FLess(Fitness(pool[c]), Fitness(pool[d]))
                /\ NUM_TOURNAMENT_PARTICIPANTS = POP_SIZE - 1 =>
                      \A d \in 1..Len(pool) : ~FLess(Fitness(parents[i]), Fitness(pool[d]))

C7_WinnerBeatsParticipant ==
    /\ pc = "strong_mutate"
    /\ generation = 2
    /\ NUM_TOURNAMENT_PARTICIPANTS = POP_SIZE - 1
    /\ \A i \in 1..Len(parents) :
          \E d \in Participants(contender_ids[i]) :
              FLess(Fitness(pool[d]), Fitness(parents[i]))

\* the two children single-point crossover at the midpoint can give
QueenFirst(q, mate) ==
    SubSeq(q, 1, Len(q) \div 2) \o SubSeq(mate, Len(q) \div 2 + 1, Len(q))

MateFirst(q, mate) ==
    SubSeq(mate, 1, Len(q) \div 2) \o SubSeq(q, Len(q) \div 2 + 1, Len(q))

\* C8: after crossover the pool holds POP_SIZE - 1 children; child i is the
\* queen's positions before the midpoint followed by mate i's from the midpoint
\* on when the drawn order puts the queen first, and mate i's positions before
\* the midpoint followed by the queen's otherwise; the order is drawn per child.
C8_CrossoverForms ==
    pc \in {"mutate", "increment"} =>
        /\ Len(pool) = POP_SIZE - 1
        /\ \A i \in 1..(POP_SIZE - 1) :
              /\ rand_crossover_order[i] \in {<<0, 1>>, <<1, 0>>}
              /\ pool[i] = IF rand_crossover_order[i] = <<0, 1>>
                           THEN QueenFirst(queen, mutated_parents[i])
                           ELSE MateFirst(queen, mutated_parents[i])

C8_BothFormsInOneGeneration ==
    /\ pc = "mutate"
    /\ rand_crossover_order[1] = <<0, 1>>
    /\ rand_crossover_order[2] = <<1, 0>>
    /\ pool[1] = QueenFirst(queen, mutated_parents[1])
    /\ pool[1] # MateFirst(queen, mutated_parents[1])
    /\ pool[2] = MateFirst(queen, mutated_parents[2])
    /\ pool[2] # QueenFirst(queen, mutated_parents[2])

\* C9 as stated: at the queen-supplant comparison, at the extraction of index 0
\* and at tournament selection, pool and fitnesses are index-aligned and sorted
\* descending by fitness, whether or not a queen was demoted and reinserted.
C9_SortedAtEverySelection ==
    pc \in {"demote", "extract", "tournament"} =>
        Aligned(pool, fitnesses) /\ SortedDescending(fitnesses)

\* C9 amended: at those three points pool and fitnesses are index-aligned; they
\* are sorted descending at the queen-supplant comparison and, in a generation
\* without a demotion, at the extraction and at tournament selection; after a
\* demotion the former queen is the last entry wherever her fitness ranks, the
\* entries before her are sorted descending, and at the extraction index 0
\* holds the best fitness of the pool.
C9_AlignedAndSortedButForDemotedQueen ==
    pc \in {"demote", "extract", "tournament"} =>
        /\ Aligned(pool, fitnesses)
        /\ (pc = "demote" \/ ~demoted) => SortedDescending(fitnesses)
        /\ demoted =>
              /\ pool[Len(pool)] = snap.queen
              /\ SortedDescending(SubSeq(fitnesses, 1, Len(fitnesses) - 1))
        /\ pc = "extract" =>
              \A i \in 1..Len(fitnesses) : ~FLess(fitnesses[1], fitnesses[i])

C9_DemotedQueenOutOfOrder ==
    /\ pc = "tournament"
    /\ demoted
    /\ Aligned(pool, fitnesses)
    /\ ~SortedDescending(fitnesses)

\* C10: after the demotion / extraction step the queen's fitness is finite, is
\* her genome's fitness, and is at least that of every pool member the
\* tournament selects from; against the queen the generation started with, her
\* fitness has not decreased, has strictly increased exactly when she was
\* replaced, and her genome is the same when she was not; the queen changes in
\* no other step than demotion and extraction.
C10_QueenElitism ==
    /\ [](pc \in {"tournament", "strong_mutate", "crossover", "mutate", "increment"} =>
            /\ queen # None
            /\ queen_fitness = Fitness(queen)
            /\ ~IsInf(queen_fitness)
            /\ pc \in {"tournament", "strong_mutate", "crossover"} =>
                  \A i \in 1..Len(pool) : ~FLess(queen_fitness, Fitness(pool[i]))
            /\ snap.queen # None =>
                  /\ ~FLess(queen_fitness, snap.queen_fitness)
                  /\ demoted <=> FLess(snap.queen_fitness, queen_fitness)
                  /\ demoted <=> queen # snap.queen)
    /\ [][(queen' # queen \/ queen_fitness' # queen_fitness) =>
             pc \in {"demote", "extract"}]_vars

C10_QueenSurvivesFitterLookingGeneration ==
    /\ pc = "increment"
    /\ generation = 2
    /\ ~demoted
    /\ queen = snap.queen
    /\ \E i \in 1..Len(pool) : FLess(queen_fitness, Fitness(pool[i]))

===========================================================================
